---- MODULE Spec2Model ----
(***************************************************************************)
(* Ride lifecycle and driver attendance of the RideShare API               *)
(* (src/main.py, src/models.py, src/database.py).                          *)
(*                                                                         *)
(* The document store is modelled as one function (or sequence) per        *)
(* collection.  A request handler is one action when requests run one at   *)
(* a time (Spec, SpecAtt, SpecScenario) and one action per store round     *)
(* trip when requests interleave (SpecConc, SpecAttConc).                  *)
(***************************************************************************)
EXTENDS Integers, Sequences, FiniteSets, TLC

VARIABLES
    rides,       \* Ride collection: ride id -> document or NoDoc
    drivers,     \* Driver collection: driver document id -> document
    attendance,  \* DriverAttendance collection, in insertion order
    now,         \* the clock read by datetime.utcnow(), in ticks
    last,        \* the request that finished last and what it returned
    scenario,    \* progress of the fixed request sequence of SpecScenario
    calls,       \* requests in flight (interleaved specifications)
    users,       \* User collection: a set of documents
    passengers,  \* Passenger collection: a set of documents
    fuel_entries \* FuelEntry collection: a set of documents

vars == <<rides, drivers, attendance, now, last, scenario, calls, users,
          passengers, fuel_entries>>

\* the collections the ride and presence handlers never touch
accounts == <<users, passengers, fuel_entries>>

-----------------------------------------------------------------------------
(* Bounds and input domains                                                *)

MaxTime == 3

\* None in an Optional[int] or Optional[datetime] field; a value v is <<v>>
None == <<>>
Some(v) == <<v>>
Val(o) == o[1]
\* None in an Optional[str] field
NoId == "None"
\* find_one's None: no document matches
NoDoc == [none |-> TRUE]

\* uuid4 strings: the ids of the User documents with role driver
UserIds == {"u1", "u2"}
\* uuid4 strings: the ids of the Driver documents
DriverIds == {"d1", "d2"}
\* ride ids a request path can carry
RideIds == {"r1", "r2"}
\* uuid4 strings the id default_factory of Ride hands out
NewRideIds == {"r1"}
Passengers == {"p1"}
\* odometer readings a request body can carry (absent = None)
KmInputs == {None, Some(0), Some(1000), Some(1040)}
\* driver_id values a request body can carry
DriverIdInputs == DriverIds \cup UserIds \cup {NoId}

Times == 0..MaxTime

\* The clock: tick t is the instant DayStart + t * TickSeconds, in seconds
\* since the midnight that starts day 0 (09:00, 17:30, 02:00 the day after,
\* 10:30, ...).
DayStart == 9 * 3600
TickSeconds == 17 * 1800
SecondsPerDay == 24 * 3600
Seconds(t) == DayStart + t * TickSeconds
\* uuid4 strings the id default_factory of User and of Driver hand out
NewUserIds == {"u4", "u5"}
NewDriverIds == {"d4", "d5"}
\* emails a request body can carry: one that a user holds from the start
\* and two that nobody holds
EmailInputs == {"driver@rideshare.com", "new1@rideshare.com",
                "new2@rideshare.com"}
\* UserRole
Roles == {"admin", "driver", "passenger"}

\* users with role driver that can authenticate: u3 was created by
\* POST /users and has no Driver profile
DriverUsers == UserIds \cup {"u3"}
\* inputs of the interleaved ride requests
ConcManualDrivers == {"u1"}
ConcUsers == {"u1"}
ConcKm == {Some(1000), Some(1040)}
\* callers of the interleaved presence requests
ConcStatusUsers == {"u1"}
\* requests that can be in flight at once
Slots == {"c1", "c2"}

-----------------------------------------------------------------------------
(* models.py                                                               *)

REQUESTED == "requested"
ASSIGNED == "assigned"
ACCEPTED == "accepted"
PICKING_UP == "picking_up"
IN_PROGRESS == "in_progress"
COMPLETED == "completed"
CANCELLED == "cancelled"

RideStatus == {REQUESTED, ASSIGNED, ACCEPTED, PICKING_UP, IN_PROGRESS,
               COMPLETED, CANCELLED}

RideUnassigned(passenger_id, driver_id, status, assigned_at, requested_at) ==
    [passenger_id |-> passenger_id,
     driver_id    |-> driver_id,
     status       |-> REQUESTED,
     requested_at |-> Some(requested_at),
     assigned_at  |-> None,
     accepted_at  |-> None,
     picked_up_at |-> None,
     completed_at |-> None,
     cancelled_at |-> None,
     distance     |-> 0,
     start_km     |-> None,
     end_km       |-> None]

\* Ride(...): the fields the handlers pass, the others at their defaults;
\* requested_at is the default_factory's clock reading.
Ride(passenger_id, driver_id, status, assigned_at, requested_at) ==
    [passenger_id |-> passenger_id,
     driver_id    |-> driver_id,
     status       |-> status,
     requested_at |-> Some(requested_at),
     assigned_at  |-> assigned_at,
     accepted_at  |-> None,
     picked_up_at |-> None,
     completed_at |-> None,
     cancelled_at |-> None,
     distance     |-> 0,
     start_km     |-> None,
     end_km       |-> None]

\* Driver(...): the fields the modelled handlers read or write.
Driver(id, user_id, t) ==
    [id                 |-> id,
     user_id            |-> user_id,
     is_online          |-> FALSE,
     last_status_change |-> t]

\* DriverAttendance(driver_id=, date=, check_in=, status="present"); id is
\* the document's position in the collection
DriverAttendance(id, driver_id, date, check_in) ==
    [id          |-> id,
     driver_id   |-> driver_id,
     date        |-> date,
     check_in    |-> check_in,
     check_out   |-> None,
     total_hours |-> None,
     status      |-> "present"]

\* User(...): the fields the modelled handlers read or write
User(id, email, role) == [id |-> id, email |-> email, role |-> role]

\* Passenger(user_id=...)
Passenger(user_id) == [user_id |-> user_id]

\* HTTP status codes of the handlers
OK == 200
InvalidTransition == 400
NotFound == 404
\* "User with this email already exists"
Conflict == 400
Forbidden == 403
\* an exception no handler catches
ServerError == 500

\* Python truthiness of an Optional[int]: None and 0 are false.
Truthy(x) == x # None /\ Val(x) # 0

-----------------------------------------------------------------------------
(* Store lookups                                                           *)

\* Ride.find_one({"_id": ride_id})
FindRide(rs, ride_id) ==
    IF ride_id \in DOMAIN rs THEN rs[ride_id] ELSE NoDoc

OwnedFilterAny(doc, user_id) == TRUE

\* the {"driver_id": current_user.id} part of the start/complete filters
OwnedFilter(doc, user_id) == doc.driver_id = user_id

\* Ride.find_one({"_id": ride_id, "driver_id": current_user.id})
FindRideOwned(rs, ride_id, user_id) ==
    IF /\ ride_id \in DOMAIN rs
       /\ rs[ride_id] # NoDoc
       /\ OwnedFilter(rs[ride_id], user_id)
    THEN rs[ride_id] ELSE NoDoc

\* Driver.find_one({"_id": driver_id})
FindDriver(ds, driver_id) ==
    IF driver_id \in DOMAIN ds THEN ds[driver_id] ELSE NoDoc

SaveRideKeepDriver(rs, ride_id, doc) ==
    [rs EXCEPT ![ride_id] =
        IF @.driver_id = NoId THEN doc
        ELSE [doc EXCEPT !.driver_id = rs[ride_id].driver_id]]

SaveRideOncePerStatus(rs, ride_id, doc) ==
    IF rs[ride_id].status = doc.status THEN rs
    ELSE [rs EXCEPT ![ride_id] = doc]

\* ride.save(): the whole document replaces the stored one
SaveRide(rs, ride_id, doc) == [rs EXCEPT ![ride_id] = doc]

\* a fresh uuid4: any id no Ride document has
FreshRideIds(rs) == {r \in DOMAIN rs : rs[r] = NoDoc}

-----------------------------------------------------------------------------
(* Ride handlers: the checks and the field updates                         *)

AssignRideCheckNoStatus(ride) ==
    IF ride = NoDoc THEN NotFound ELSE OK

\* assign_ride, the checks on the ride read
AssignRideCheck(ride) ==
    IF ride = NoDoc THEN NotFound
    ELSE IF ride.status # REQUESTED THEN InvalidTransition
    ELSE OK

AssignDriverCheckSkipped(driver) == OK

\* assign_ride, the check on the driver read
AssignDriverCheck(driver) ==
    IF driver = NoDoc THEN NotFound ELSE OK

AssignCodeAnyStatus(ride, driver) ==
    IF ride = NoDoc THEN NotFound ELSE AssignDriverCheck(driver)

\* assign_ride, the status code of the whole handler
AssignCode(ride, driver) ==
    IF AssignRideCheck(ride) # OK THEN AssignRideCheck(ride)
    ELSE AssignDriverCheck(driver)

AssignUpdateAccepted(ride, driver_id, t) ==
    [ride EXCEPT !.driver_id = driver_id,
                 !.status = ACCEPTED,
                 !.accepted_at = Some(t)]

\* assign_ride, the fields set on the document read
AssignUpdate(ride, driver_id, t) ==
    [ride EXCEPT !.driver_id = driver_id,
                 !.status = ASSIGNED,
                 !.assigned_at = Some(t)]

StartCheckNoStatus(ride) ==
    IF ride = NoDoc THEN NotFound ELSE OK

StartCheckRestartable(ride) ==
    IF ride = NoDoc THEN NotFound
    ELSE IF ride.status \notin {ASSIGNED, IN_PROGRESS} THEN InvalidTransition
    ELSE OK

\* start_ride, the checks on the ride read
StartCheck(ride) ==
    IF ride = NoDoc THEN NotFound
    ELSE IF ride.status # ASSIGNED THEN InvalidTransition
    ELSE OK

StartUpdateRestamp(ride, start_km, t) ==
    [ride EXCEPT !.status = IN_PROGRESS,
                 !.assigned_at = Some(t),
                 !.picked_up_at = Some(t),
                 !.start_km = start_km]

\* start_ride, the fields set on the document read
StartUpdate(ride, start_km, t) ==
    [ride EXCEPT !.status = IN_PROGRESS,
                 !.picked_up_at = Some(t),
                 !.start_km = start_km]

CompleteCheckNoStatus(ride) ==
    IF ride = NoDoc THEN NotFound ELSE OK

\* complete_ride, the checks on the ride read
CompleteCheck(ride) ==
    IF ride = NoDoc THEN NotFound
    ELSE IF ride.status # IN_PROGRESS THEN InvalidTransition
    ELSE OK

DistancePresent(start_km, end_km) ==
    IF start_km # None /\ end_km # None THEN Val(end_km) - Val(start_km)
    ELSE 0

\* distance = end_km - ride.start_km if ride.start_km and end_km else 0
Distance(start_km, end_km) ==
    IF Truthy(start_km) /\ Truthy(end_km) THEN Val(end_km) - Val(start_km)
    ELSE 0

\* complete_ride, the fields set on the document read
CompleteUpdate(ride, end_km, t) ==
    [ride EXCEPT !.status = COMPLETED,
                 !.completed_at = Some(t),
                 !.end_km = end_km,
                 !.distance = Distance(ride.start_km, end_km)]

-----------------------------------------------------------------------------
(* update_my_status: lookups, decisions and field updates                  *)

SecondsPerHour == 3600

\* datetime(today.year, today.month, today.day) for the clock reading t,
\* as the number of the day
Midnight(t) == Seconds(t) \div SecondsPerDay

\* Driver.find_one({"user_id": current_user.id})
FindDriverByUser(ds, user_id) ==
    IF \E d \in DOMAIN ds : ds[d].user_id = user_id
    THEN ds[CHOOSE d \in DOMAIN ds : ds[d].user_id = user_id]
    ELSE NoDoc

AttendanceFilterByUser(doc, driver, date) ==
    doc.driver_id = driver.user_id /\ doc.date = date

\* the filter {"driver_id": driver.id, "date": datetime(...)}
AttendanceFilter(doc, driver, date) ==
    doc.driver_id = driver.id /\ doc.date = date

FindAttendanceOpenSession(att, driver, date) ==
    LET hits == {i \in 1..Len(att) : att[i].driver_id = driver.id}
    IN  IF hits = {} THEN NoDoc
        ELSE att[CHOOSE i \in hits : \A j \in hits : i >= j]

\* DriverAttendance.find_one(filter): the first document that matches
FindAttendance(att, driver, date) ==
    LET hits == {i \in 1..Len(att) : AttendanceFilter(att[i], driver, date)}
    IN  IF hits = {} THEN NoDoc
        ELSE att[CHOOSE i \in hits : \A j \in hits : i <= j]

DriverStatusUpdateOnChange(driver, is_online, t) ==
    IF driver.is_online = is_online THEN driver
    ELSE [driver EXCEPT !.is_online = is_online, !.last_status_change = t]

\* driver.is_online = is_online; driver.last_status_change = now
DriverStatusUpdate(driver, is_online, t) ==
    [driver EXCEPT !.is_online = is_online, !.last_status_change = t]

AttendanceWriteAnyOffline(found, is_online) ==
    IF is_online
    THEN IF found = NoDoc THEN "insert"
         ELSE IF found.check_in = None THEN "save"
         ELSE "none"
    ELSE IF found # NoDoc THEN "save"
         ELSE "none"

AttendanceWriteEveryOnline(found, is_online) ==
    IF is_online
    THEN IF found = NoDoc THEN "insert" ELSE "save"
    ELSE IF found # NoDoc /\ found.check_out = None THEN "save"
         ELSE "none"

\* the attendance write the handler makes for the document it found
AttendanceWrite(found, is_online) ==
    IF is_online
    THEN IF found = NoDoc THEN "insert"
         ELSE IF found.check_in = None THEN "save"
         ELSE "none"
    ELSE IF found # NoDoc /\ found.check_out = None THEN "save"
         ELSE "none"

TotalHoursInMinutes(check_in, check_out) ==
    <<Seconds(Val(check_out)) - Seconds(Val(check_in)), 60>>

\* (check_out - check_in).total_seconds() / 3600.0, as the fraction
\* <<seconds, 3600>>
TotalHours(check_in, check_out) ==
    <<Seconds(Val(check_out)) - Seconds(Val(check_in)), SecondsPerHour>>

AttendanceUpdateKeepStatus(found, is_online, t) ==
    IF is_online
    THEN [found EXCEPT !.check_in = Some(t)]
    ELSE [found EXCEPT
            !.check_out = Some(t),
            !.total_hours = IF found.check_in # None
                            THEN Some(<<Seconds(t)
                                          - Seconds(Val(found.check_in)),
                                        SecondsPerHour>>)
                            ELSE Some(<<0, SecondsPerHour>>)]

\* the document written: check_in and status when going online, check_out
\* and total_hours when going offline
AttendanceUpdate(found, is_online, t) ==
    IF is_online
    THEN [found EXCEPT !.check_in = Some(t), !.status = "present"]
    ELSE [found EXCEPT
            !.check_out = Some(t),
            !.total_hours = IF found.check_in # None
                            THEN Some(TotalHours(found.check_in, Some(t)))
                            ELSE Some(<<0, SecondsPerHour>>)]

InsertAttendanceUpsert(att, driver_id, date, t) ==
    IF \E i \in 1..Len(att) : att[i].driver_id = driver_id /\ att[i].date = date
    THEN att
    ELSE Append(att, DriverAttendance(Len(att) + 1, driver_id, date, Some(t)))

\* attendance.insert() of a new DriverAttendance
InsertAttendance(att, driver_id, date, t) ==
    Append(att, DriverAttendance(Len(att) + 1, driver_id, date, Some(t)))

\* attendance.save(): the whole document replaces the stored one
SaveAttendance(att, doc) == [att EXCEPT ![doc.id] = doc]

\* the attendance collection after the handler's write
AttendanceAfter(att, found, driver, date, is_online, t) ==
    LET write == AttendanceWrite(found, is_online)
    IN  IF write = "insert" THEN InsertAttendance(att, driver.id, date, t)
        ELSE IF write = "save"
        THEN SaveAttendance(att, AttendanceUpdate(found, is_online, t))
        ELSE att

-----------------------------------------------------------------------------
(* What a finished request leaves in `last`                                *)

\* op: the handler; ride, by, driver_id, km: the ride id, the authenticated
\* user, and the driver_id and odometer reading of the request body;
\* code: the HTTP status; distance: the "distance" of the response body
\* is_online: the query parameter of update_my_status; att: the write it
\* made to the attendance collection ("insert", "save" or "none")
\* email, role: the email and role of a create_user, create_driver or
\* create_passenger request; rows: the entries get_fuel_entries returned
NoCall == [op |-> "none", ride |-> NoId, by |-> NoId, driver_id |-> NoId,
           km |-> None, code |-> OK, distance |-> None,
           is_online |-> FALSE, att |-> "none", email |-> NoId,
           role |-> NoId, rows |-> {}]

Reply(op, ride_id, by, driver_id, km, code, distance) ==
    [NoCall EXCEPT !.op = op, !.ride = ride_id, !.by = by,
                   !.driver_id = driver_id, !.km = km, !.code = code,
                   !.distance = distance]

\* A request in flight.  pc: the store round trip it waits for ("idle":
\* none yet, "done": response sent); doc: the Ride or Driver document it
\* read, with its field assignments; date, found: update_my_status's date
\* key and the attendance document it read; t: its `now`; seq: 2 when its
\* ride.save() is the latest of the requests in flight, 1 when another
\* request saved after it, 0 when it has not saved
IdleCall == [pc |-> "idle", op |-> "none", ride |-> NoId, by |-> NoId,
             driver_id |-> NoId, km |-> None, is_online |-> FALSE,
             doc |-> NoDoc, date |-> 0, found |-> NoDoc, t |-> 0,
             code |-> OK, distance |-> None, seq |-> 0]

StatusReply(by, is_online, code, att) ==
    [NoCall EXCEPT !.op = "update_my_status", !.by = by,
                   !.is_online = is_online, !.code = code, !.att = att]

-----------------------------------------------------------------------------
(* Initial store: create_default_users has run, with one more driver.      *)

\* the users create_default_users inserts, with one more driver
InitUsers ==
    {User("a1", "admin@rideshare.com", "admin"),
     User("u1", "driver@rideshare.com", "driver"),
     User("u2", "driver2@rideshare.com", "driver"),
     User("p1", "passenger@rideshare.com", "passenger")}

InitPassengers == {Passenger("p1")}

InitDrivers ==
    [d \in DriverIds |-> Driver(d, IF d = "d1" THEN "u1" ELSE "u2", 0)]

\* driver: the id of the Driver document of the scenario's driver; ride: the
\* ride created; codes: the status codes of the requests made so far
NoScenario == [driver |-> NoId, ride |-> NoId, codes |-> <<>>]

InitStore ==
    /\ rides = [r \in NewRideIds |-> NoDoc]
    /\ drivers = InitDrivers
    /\ attendance = <<>>
    /\ now = 0
    /\ last = NoCall
    /\ calls = [c \in Slots |-> IdleCall]
    /\ users = InitUsers
    /\ passengers = InitPassengers
    /\ fuel_entries = {}

Init ==
    /\ InitStore
    /\ scenario = NoScenario

-----------------------------------------------------------------------------
(* The handlers, each run from request to response without interleaving    *)

\* POST /rides
create_ride(passenger_id) ==
    /\ \E id \in FreshRideIds(rides) :
         /\ rides' = [rides EXCEPT ![id] =
                         Ride(passenger_id, NoId, REQUESTED, None, now)]
         /\ last' = Reply("create_ride", id, NoId, NoId, None, OK, None)
    /\ UNCHANGED <<drivers, attendance, now, calls>>

\* POST /rides/manual.  assigned_at=datetime.utcnow() is evaluated before
\* the constructor's default_factory reads the clock for requested_at.
create_manual_ride(passenger_id, driver_id) ==
    /\ \E id \in FreshRideIds(rides) :
       \E t \in {now, now + 1} \cap Times :
         /\ rides' = [rides EXCEPT ![id] =
                         Ride(passenger_id, driver_id, ASSIGNED, Some(now), t)]
         /\ now' = t
         /\ last' = Reply("create_manual_ride", id, NoId, driver_id, None,
                          OK, None)
    /\ UNCHANGED <<drivers, attendance, calls>>

\* POST /rides/{ride_id}/assign
assign_ride(ride_id, driver_id) ==
    LET ride == FindRide(rides, ride_id)
        code == AssignCode(ride, FindDriver(drivers, driver_id))
    IN  /\ rides' = IF code = OK
                    THEN SaveRide(rides, ride_id,
                                  AssignUpdate(ride, driver_id, now))
                    ELSE rides
        /\ last' = Reply("assign", ride_id, NoId, driver_id, None, code, None)
        /\ UNCHANGED <<drivers, attendance, now, calls>>

\* POST /rides/{ride_id}/start, authenticated as user_id
start_ride(ride_id, user_id, start_km) ==
    LET ride == FindRideOwned(rides, ride_id, user_id)
        code == StartCheck(ride)
    IN  /\ rides' = IF code = OK
                    THEN SaveRide(rides, ride_id,
                                  StartUpdate(ride, start_km, now))
                    ELSE rides
        /\ last' = Reply("start", ride_id, user_id, NoId, start_km, code, None)
        /\ UNCHANGED <<drivers, attendance, now, calls>>

\* POST /rides/{ride_id}/complete, authenticated as user_id
complete_ride(ride_id, user_id, end_km) ==
    LET ride == FindRideOwned(rides, ride_id, user_id)
        code == CompleteCheck(ride)
    IN  /\ rides' = IF code = OK
                    THEN SaveRide(rides, ride_id,
                                  CompleteUpdate(ride, end_km, now))
                    ELSE rides
        /\ last' = Reply("complete", ride_id, user_id, NoId, end_km, code,
                         IF code = OK
                         THEN Some(Distance(ride.start_km, end_km))
                         ELSE None)
        /\ UNCHANGED <<drivers, attendance, now, calls>>

-----------------------------------------------------------------------------
(* Spec: ride requests executed one at a time                              *)

\* time passes between two requests
Tick ==
    /\ now < MaxTime
    /\ now' = now + 1
    /\ UNCHANGED <<rides, drivers, attendance, last, scenario, calls, accounts>>

CreateRide(passenger_id) ==
    create_ride(passenger_id) /\ UNCHANGED <<scenario, accounts>>

CreateManualRide(passenger_id, driver_id) ==
    create_manual_ride(passenger_id, driver_id) /\ UNCHANGED <<scenario, accounts>>

AssignRide(ride_id, driver_id) ==
    assign_ride(ride_id, driver_id) /\ UNCHANGED <<scenario, accounts>>

StartRide(ride_id, user_id, start_km) ==
    start_ride(ride_id, user_id, start_km) /\ UNCHANGED <<scenario, accounts>>

CompleteRide(ride_id, user_id, end_km) ==
    complete_ride(ride_id, user_id, end_km) /\ UNCHANGED <<scenario, accounts>>

Next ==
    \/ Tick
    \/ \E p \in Passengers : CreateRide(p)
    \/ \E p \in Passengers, d \in DriverIdInputs : CreateManualRide(p, d)
    \/ \E r \in RideIds, d \in DriverIdInputs : AssignRide(r, d)
    \/ \E r \in RideIds, u \in UserIds, km \in KmInputs : StartRide(r, u, km)
    \/ \E r \in RideIds, u \in UserIds, km \in KmInputs : CompleteRide(r, u, km)

Spec == Init /\ [][Next]_vars

-----------------------------------------------------------------------------
(* SpecScenario: create_ride, assign, start(1000), complete(1040) by the   *)
(* driver the ride was assigned to, with time passing in between           *)

ScenarioInit ==
    /\ InitStore
    /\ \E d \in DriverIds : scenario = [NoScenario EXCEPT !.driver = d]

\* the scenario's step number n ran and returned last'.code
ScenarioDid(n) ==
    /\ Len(scenario.codes) = n - 1
    /\ scenario' = [scenario EXCEPT
                       !.ride = IF n = 1 THEN last'.ride ELSE @,
                       !.codes = Append(@, last'.code)]
    /\ UNCHANGED accounts

ScenarioCreate ==
    /\ \E p \in Passengers : create_ride(p)
    /\ ScenarioDid(1)

ScenarioAssign ==
    /\ assign_ride(scenario.ride, scenario.driver)
    /\ ScenarioDid(2)

\* the driver authenticates as the User its Driver profile belongs to
ScenarioStart ==
    /\ start_ride(scenario.ride, drivers[scenario.driver].user_id, Some(1000))
    /\ ScenarioDid(3)

ScenarioComplete ==
    /\ complete_ride(scenario.ride, drivers[scenario.driver].user_id,
                     Some(1040))
    /\ ScenarioDid(4)

ScenarioNext ==
    \/ Tick
    \/ ScenarioCreate
    \/ ScenarioAssign
    \/ ScenarioStart
    \/ ScenarioComplete

SpecScenario == ScenarioInit /\ [][ScenarioNext]_vars

-----------------------------------------------------------------------------
(* SpecAtt: presence requests executed one at a time                       *)

\* PUT /drivers/me/status, authenticated as user_id.  The clock is read for
\* `now`, and again for `today` after the driver document is saved.
update_my_status(user_id, is_online) ==
    LET driver == FindDriverByUser(drivers, user_id)
    IN  IF driver = NoDoc
        THEN /\ last' = StatusReply(user_id, is_online, NotFound, "none")
             /\ UNCHANGED <<rides, drivers, attendance, now, calls>>
        ELSE \E t \in {now, now + 1} \cap Times :
               LET today == Midnight(t)
                   found == FindAttendance(attendance, driver, today)
               IN  /\ drivers' = [drivers EXCEPT ![driver.id] =
                                    DriverStatusUpdate(driver, is_online, now)]
                   /\ attendance' = AttendanceAfter(attendance, found, driver,
                                                    today, is_online, now)
                   /\ now' = t
                   /\ last' = StatusReply(user_id, is_online, OK,
                                          AttendanceWrite(found, is_online))
                   /\ UNCHANGED <<rides, calls>>

UpdateMyStatus(user_id, is_online) ==
    update_my_status(user_id, is_online) /\ UNCHANGED <<scenario, accounts>>

AttNext ==
    \/ Tick
    \/ \E u \in DriverUsers, b \in BOOLEAN : UpdateMyStatus(u, b)

SpecAtt == Init /\ [][AttNext]_vars

-----------------------------------------------------------------------------
(* SpecAttSeeded: presence requests one at a time on a collection that     *)
(* already holds a record without check_in (DriverAttendance allows        *)
(* check_in = None and status "absent"; the handler has a branch for it)   *)

AbsentRecord ==
    [DriverAttendance(1, "d1", Midnight(0), None) EXCEPT !.status = "absent"]

SeededInit ==
    /\ rides = [r \in NewRideIds |-> NoDoc]
    /\ drivers = InitDrivers
    /\ attendance = <<AbsentRecord>>
    /\ now = 0
    /\ last = NoCall
    /\ calls = [c \in Slots |-> IdleCall]
    /\ users = InitUsers
    /\ passengers = InitPassengers
    /\ fuel_entries = {}
    /\ scenario = NoScenario

SpecAttSeeded == SeededInit /\ [][AttNext]_vars

-----------------------------------------------------------------------------
(* SpecAttScenario: one driver goes online, offline, online and offline,   *)
(* with time passing in between                                            *)

\* the scenario's request number n, by the user of the scenario's driver
ScenarioStatus(n, is_online) ==
    /\ update_my_status(drivers[scenario.driver].user_id, is_online)
    /\ ScenarioDid(n)

AttScenarioNext ==
    \/ Tick
    \/ ScenarioStatus(1, TRUE)
    \/ ScenarioStatus(2, FALSE)
    \/ ScenarioStatus(3, TRUE)
    \/ ScenarioStatus(4, FALSE)

SpecAttScenario == ScenarioInit /\ [][AttScenarioNext]_vars

-----------------------------------------------------------------------------
(* SpecUsers: create_user, create_driver, create_passenger one at a time   *)

\* User.find_one({"email": email})
FindUserByEmail(us, email) ==
    IF \E u \in us : u.email = email
    THEN CHOOSE u \in us : u.email = email
    ELSE NoDoc

EmailCheckSkipped(existing) == OK

\* if existing_user: raise HTTPException(status_code=400, ...)
EmailCheck(existing) == IF existing # NoDoc THEN Conflict ELSE OK

\* fresh uuid4s: ids no User, no Driver has
FreshUserIds(us) == NewUserIds \ {u.id : u \in us}
FreshDriverIds(ds) == NewDriverIds \ DOMAIN ds

UserReply(op, email, role, code) ==
    [NoCall EXCEPT !.op = op, !.email = email, !.role = role, !.code = code]

UsersFrame == UNCHANGED <<rides, attendance, now, scenario, calls,
                          fuel_entries>>

\* POST /users
create_user(email, role) ==
    LET code == EmailCheck(FindUserByEmail(users, email))
    IN  /\ IF code # OK
           THEN UNCHANGED users
           ELSE \E id \in FreshUserIds(users) :
                   users' = users \cup {User(id, email, role)}
        /\ last' = UserReply("create_user", email, role, code)
        /\ UNCHANGED <<drivers, passengers>>
        /\ UsersFrame

\* POST /drivers.  The User is inserted first; Driver.create_driver is
\* called without the vehicle fields of Driver, and its insert either
\* stores the profile or raises.
create_driver(email) ==
    LET code == EmailCheck(FindUserByEmail(users, email))
    IN  /\ IF code # OK
           THEN /\ UNCHANGED <<users, drivers>>
                /\ last' = UserReply("create_driver", email, "driver", code)
           ELSE \E id \in FreshUserIds(users) :
                   /\ users' = users \cup {User(id, email, "driver")}
                   /\ \/ \E d \in FreshDriverIds(drivers) :
                           /\ drivers' = drivers @@ (d :> Driver(d, id, now))
                           /\ last' = UserReply("create_driver", email,
                                                "driver", OK)
                      \/ /\ UNCHANGED drivers
                         /\ last' = UserReply("create_driver", email,
                                              "driver", ServerError)
        /\ UNCHANGED passengers
        /\ UsersFrame

\* POST /passengers
create_passenger(email) ==
    LET code == EmailCheck(FindUserByEmail(users, email))
    IN  /\ IF code # OK
           THEN UNCHANGED <<users, passengers>>
           ELSE \E id \in FreshUserIds(users) :
                   /\ users' = users \cup {User(id, email, "passenger")}
                   /\ passengers' = passengers \cup {Passenger(id)}
        /\ last' = UserReply("create_passenger", email, "passenger", code)
        /\ UNCHANGED drivers
        /\ UsersFrame

UsersNext ==
    \/ \E e \in EmailInputs, role \in Roles : create_user(e, role)
    \/ \E e \in EmailInputs : create_driver(e)
    \/ \E e \in EmailInputs : create_passenger(e)

SpecUsers == Init /\ [][UsersNext]_vars

-----------------------------------------------------------------------------
(* SpecFuel: create_fuel_entry and get_fuel_entries one at a time          *)

\* uuid4 strings the id default_factory of FuelEntry hands out
FuelIds == {"f1", "f2", "f3"}
\* the driver_id query parameter: absent, empty, or the id of a user
FuelFilters == {NoId, ""} \cup UserIds

\* FuelEntry(driver_id=current_user.id, ..., added_by="driver")
FuelEntry(id, driver_id) ==
    [id |-> id, driver_id |-> driver_id, added_by |-> "driver"]

\* `if driver_id:` on an Optional[str]: None and "" are false
FilterGiven(driver_id) == driver_id # NoId /\ driver_id # ""

FuelQueryByFilter(entries, user, driver_id) ==
    IF user.role \in {"admin", "driver"}
    THEN IF FilterGiven(driver_id)
         THEN {x \in entries : x.driver_id = driver_id}
         ELSE entries
    ELSE {}

\* get_fuel_entries: the entries the branch of the caller's role finds
FuelQuery(entries, user, driver_id) ==
    IF user.role = "admin"
    THEN IF FilterGiven(driver_id)
         THEN {x \in entries : x.driver_id = driver_id}
         ELSE entries
    ELSE IF user.role = "driver"
    THEN {x \in entries : x.driver_id = user.id}
    ELSE {}

\* get_fuel_entries: 403 for a caller who is neither admin nor driver
FuelCode(user) ==
    IF user.role \in {"admin", "driver"} THEN OK ELSE Forbidden

FuelFrame == UNCHANGED <<rides, drivers, attendance, now, scenario, calls,
                         users, passengers>>

\* POST /fuel-entries, authenticated as the driver `user`
create_fuel_entry(user) ==
    /\ user.role = "driver"
    /\ \E id \in FuelIds \ {x.id : x \in fuel_entries} :
          fuel_entries' = fuel_entries \cup {FuelEntry(id, user.id)}
    /\ last' = [NoCall EXCEPT !.op = "create_fuel_entry", !.by = user.id]
    /\ FuelFrame

\* GET /fuel-entries?driver_id=..., authenticated as `user`
get_fuel_entries(user, driver_id) ==
    /\ last' = [NoCall EXCEPT
                  !.op = "get_fuel_entries", !.by = user.id,
                  !.driver_id = driver_id, !.code = FuelCode(user),
                  !.rows = FuelQuery(fuel_entries, user, driver_id)]
    /\ UNCHANGED fuel_entries
    /\ FuelFrame

FuelNext ==
    \/ \E u \in users : create_fuel_entry(u)
    \/ \E u \in users, f \in FuelFilters : get_fuel_entries(u, f)

SpecFuel == Init /\ [][FuelNext]_vars

-----------------------------------------------------------------------------
(* SpecConc: ride requests interleaved at the store round trips            *)

Done(call, code) == [call EXCEPT !.pc = "done", !.code = code]

ConcFrame == UNCHANGED <<drivers, attendance, now, last, scenario, accounts>>

\* assign_ride up to its second await: Ride.find_one and the ride checks
AssignRead(c, ride_id, driver_id) ==
    LET ride == FindRide(rides, ride_id)
        call == [IdleCall EXCEPT !.op = "assign", !.ride = ride_id,
                                 !.driver_id = driver_id, !.doc = ride]
    IN  /\ calls[c].pc = "idle"
        /\ calls' = [calls EXCEPT ![c] =
                        IF AssignRideCheck(ride) = OK
                        THEN [call EXCEPT !.pc = "find_driver"]
                        ELSE Done(call, AssignRideCheck(ride))]
        /\ UNCHANGED rides
        /\ ConcFrame

\* assign_ride from Driver.find_one to ride.save(): the driver check and
\* the assignments to the document read earlier
AssignDriverRead(c) ==
    LET call == calls[c]
        driver == FindDriver(drivers, call.driver_id)
    IN  /\ call.pc = "find_driver"
        /\ calls' = [calls EXCEPT ![c] =
                        IF AssignDriverCheck(driver) = OK
                        THEN [call EXCEPT
                                !.pc = "save",
                                !.doc = AssignUpdate(call.doc, call.driver_id,
                                                     now)]
                        ELSE Done(call, AssignDriverCheck(driver))]
        /\ UNCHANGED rides
        /\ ConcFrame

\* start_ride up to ride.save()
StartRead(c, ride_id, user_id, start_km) ==
    LET ride == FindRideOwned(rides, ride_id, user_id)
        call == [IdleCall EXCEPT !.op = "start", !.ride = ride_id,
                                 !.by = user_id, !.km = start_km]
    IN  /\ calls[c].pc = "idle"
        /\ calls' = [calls EXCEPT ![c] =
                        IF StartCheck(ride) = OK
                        THEN [call EXCEPT
                                !.pc = "save",
                                !.doc = StartUpdate(ride, start_km, now)]
                        ELSE Done(call, StartCheck(ride))]
        /\ UNCHANGED rides
        /\ ConcFrame

\* complete_ride up to ride.save()
CompleteRead(c, ride_id, user_id, end_km) ==
    LET ride == FindRideOwned(rides, ride_id, user_id)
        call == [IdleCall EXCEPT !.op = "complete", !.ride = ride_id,
                                 !.by = user_id, !.km = end_km]
    IN  /\ calls[c].pc = "idle"
        /\ calls' = [calls EXCEPT ![c] =
                        IF CompleteCheck(ride) = OK
                        THEN [call EXCEPT
                                !.pc = "save",
                                !.doc = CompleteUpdate(ride, end_km, now),
                                !.distance =
                                    Some(Distance(ride.start_km, end_km))]
                        ELSE Done(call, CompleteCheck(ride))]
        /\ UNCHANGED rides
        /\ ConcFrame

\* await ride.save(), and the response
RideSave(c) ==
    /\ calls[c].pc = "save"
    /\ rides' = SaveRide(rides, calls[c].ride, calls[c].doc)
    /\ calls' = [k \in Slots |->
                    IF k = c THEN [Done(calls[k], OK) EXCEPT !.seq = 2]
                    ELSE [calls[k] EXCEPT !.seq = IF @ > 0 THEN 1 ELSE 0]]
    /\ ConcFrame

\* the connection of a finished request is closed
Return(c) ==
    /\ calls[c].pc = "done"
    /\ calls' = [calls EXCEPT ![c] = IdleCall]
    /\ UNCHANGED <<rides, drivers, attendance, now, last, scenario, accounts>>

ConcNext ==
    \/ Tick
    \/ \E p \in Passengers : CreateRide(p)
    \/ \E p \in Passengers, d \in ConcManualDrivers : CreateManualRide(p, d)
    \/ \E c \in Slots, r \in NewRideIds, d \in DriverIds : AssignRead(c, r, d)
    \/ \E c \in Slots : AssignDriverRead(c)
    \/ \E c \in Slots, r \in NewRideIds, u \in ConcUsers, km \in ConcKm :
         StartRead(c, r, u, km)
    \/ \E c \in Slots, r \in NewRideIds, u \in ConcUsers, km \in ConcKm :
         CompleteRead(c, r, u, km)
    \/ \E c \in Slots : RideSave(c)
    \/ \E c \in Slots : Return(c)

SpecConc == Init /\ [][ConcNext]_vars

-----------------------------------------------------------------------------
(* SpecAttConc: presence requests interleaved at the store round trips     *)

AttFrame == UNCHANGED <<rides, last, scenario, accounts>>

\* update_my_status up to driver.save(): Driver.find_one, now, the fields
StatusDriverRead(c, user_id, is_online) ==
    LET driver == FindDriverByUser(drivers, user_id)
        call == [IdleCall EXCEPT !.op = "update_my_status", !.by = user_id,
                                 !.is_online = is_online]
    IN  /\ calls[c].pc = "idle"
        /\ calls' = [calls EXCEPT ![c] =
                        IF driver = NoDoc THEN Done(call, NotFound)
                        ELSE [call EXCEPT
                                !.pc = "save_driver",
                                !.t = now,
                                !.doc = DriverStatusUpdate(driver, is_online,
                                                           now)]]
        /\ UNCHANGED <<drivers, attendance, now>>
        /\ AttFrame

\* await driver.save(), then today's date for the attendance lookup
StatusDriverSave(c) ==
    /\ calls[c].pc = "save_driver"
    /\ drivers' = [drivers EXCEPT ![calls[c].doc.id] = calls[c].doc]
    /\ calls' = [calls EXCEPT ![c] = [@ EXCEPT !.pc = "find_attendance",
                                               !.date = Midnight(now)]]
    /\ UNCHANGED <<attendance, now>>
    /\ AttFrame

\* await DriverAttendance.find_one(...), then the branch on what it found
StatusAttendanceRead(c) ==
    LET call == calls[c]
        found == FindAttendance(attendance, call.doc, call.date)
    IN  /\ call.pc = "find_attendance"
        /\ calls' = [calls EXCEPT ![c] =
                        IF AttendanceWrite(found, call.is_online) = "none"
                        THEN [Done(call, OK) EXCEPT !.found = found]
                        ELSE [call EXCEPT !.pc = "write_attendance",
                                          !.found = found]]
        /\ UNCHANGED <<drivers, attendance, now>>
        /\ AttFrame

\* await attendance.insert() or attendance.save(), and the response
StatusAttendanceWrite(c) ==
    LET call == calls[c]
    IN  /\ call.pc = "write_attendance"
        /\ attendance' = AttendanceAfter(attendance, call.found, call.doc,
                                         call.date, call.is_online, call.t)
        /\ calls' = [calls EXCEPT ![c] = Done(call, OK)]
        /\ UNCHANGED <<drivers, now>>
        /\ AttFrame

AttConcNext ==
    \/ Tick
    \/ \E c \in Slots, u \in ConcStatusUsers, b \in BOOLEAN :
         StatusDriverRead(c, u, b)
    \/ \E c \in Slots : StatusDriverSave(c)
    \/ \E c \in Slots : StatusAttendanceRead(c)
    \/ \E c \in Slots : StatusAttendanceWrite(c)
    \/ \E c \in Slots : Return(c)

SpecAttConc == Init /\ [][AttConcNext]_vars

-----------------------------------------------------------------------------
(* Properties of the ride lifecycle, requests one at a time                *)

\* a step that ran a request (a request repeated with the same outcome on
\* an unchanged store is a stuttering step)
CallStep == last' # last

StatusEdges == {<<REQUESTED, ASSIGNED>>, <<ASSIGNED, IN_PROGRESS>>,
                <<IN_PROGRESS, COMPLETED>>}

\* C1: every change of a ride's stored status is one of
\* REQUESTED->ASSIGNED, ASSIGNED->IN_PROGRESS, IN_PROGRESS->COMPLETED.
C1_StatusEdges ==
    [][\A r \in DOMAIN rides :
         (/\ rides[r] # NoDoc
          /\ rides'[r] # NoDoc
          /\ rides'[r].status # rides[r].status)
         => <<rides[r].status, rides'[r].status>> \in StatusEdges]_vars

\* a ride went ASSIGNED -> IN_PROGRESS -> COMPLETED
C1_Witness ==
    \E r \in DOMAIN rides :
        /\ rides[r] # NoDoc
        /\ rides[r].status = COMPLETED
        /\ rides[r].picked_up_at # None

\* C2: create_ride(P1), assign(ride, D1), start(ride, D1, 1000),
\* complete(ride, D1, 1040) all succeed and leave the ride COMPLETED with
\* distance 40 and requested_at <= assigned_at <= picked_up_at <=
\* completed_at, all set.
C2_Scenario ==
    Len(scenario.codes) = 4 =>
        LET ride == rides[scenario.ride]
        IN  /\ \A i \in 1..4 : scenario.codes[i] = OK
            /\ ride.status = COMPLETED
            /\ ride.distance = 40
            /\ ride.assigned_at # None
            /\ ride.picked_up_at # None
            /\ ride.completed_at # None
            /\ Val(ride.requested_at) <= Val(ride.assigned_at)
            /\ Val(ride.assigned_at) <= Val(ride.picked_up_at)
            /\ Val(ride.picked_up_at) <= Val(ride.completed_at)

\* C3: once a ride has been assigned, every later assign on it, with any
\* driver id, fails with InvalidTransition and leaves the ride as it was.
C3_SecondAssignFails ==
    [][\A r \in DOMAIN rides :
         (/\ CallStep
          /\ last'.op = "assign"
          /\ last'.ride = r
          /\ rides[r] # NoDoc
          /\ rides[r].status # REQUESTED)
         => /\ last'.code = InvalidTransition
            /\ rides'[r] = rides[r]]_vars

\* a second assign, naming another existing driver, was refused on a ride
\* that assign_ride had assigned (create_manual_ride never leaves
\* assigned_at after requested_at)
C3_Witness ==
    /\ last.op = "assign"
    /\ last.code = InvalidTransition
    /\ last.ride \in DOMAIN rides
    /\ rides[last.ride] # NoDoc
    /\ rides[last.ride].status = ASSIGNED
    /\ rides[last.ride].driver_id \in DriverIds
    /\ last.driver_id \in DriverIds \ {rides[last.ride].driver_id}
    /\ Val(rides[last.ride].assigned_at) > Val(rides[last.ride].requested_at)

\* C4: complete succeeds only on a ride in IN_PROGRESS; complete by the
\* ride's driver on a COMPLETED ride fails with InvalidTransition and
\* leaves the ride (end_km, distance, completed_at, status) as it was.
C4_CompleteOnlyInProgress ==
    [][\A r \in RideIds :
         (/\ CallStep
          /\ last'.op = "complete"
          /\ last'.ride = r)
         => /\ last'.code = OK =>
                  /\ FindRide(rides, r) # NoDoc
                  /\ rides[r].status = IN_PROGRESS
            /\ (/\ FindRide(rides, r) # NoDoc
                /\ rides[r].status = COMPLETED
                /\ rides[r].driver_id = last'.by)
               => /\ last'.code = InvalidTransition
                  /\ rides'[r] = rides[r]]_vars

\* the ride's driver called complete on a ride completed earlier
C4_Witness ==
    /\ last.op = "complete"
    /\ last.code = InvalidTransition
    /\ rides[last.ride].status = COMPLETED
    /\ rides[last.ride].driver_id = last.by
    /\ last.km # rides[last.ride].end_km

\* C5: a successful complete stores and returns end_km - start_km when
\* both readings are present (0 included), and 0 when one is absent.
C5_Distance ==
    (last.op = "complete" /\ last.code = OK) =>
        LET ride == rides[last.ride]
        IN  /\ ride.end_km = last.km
            /\ ride.distance = DistancePresent(ride.start_km, ride.end_km)
            /\ last.distance = Some(ride.distance)

\* C6: start or complete by a driver other than the ride's driver_id fails
\* with NotFound, whatever the ride's status, and changes no ride.
C6_OtherDriverNotFound ==
    [][\A r \in RideIds :
         (/\ CallStep
          /\ last'.op \in {"start", "complete"}
          /\ last'.ride = r
          /\ FindRide(rides, r) # NoDoc
          /\ rides[r].driver_id # last'.by)
         => /\ last'.code = NotFound
            /\ rides' = rides]_vars

\* a driver was refused the start of a ride that its own driver could start
C6_Witness ==
    /\ last.op = "start"
    /\ last.code = NotFound
    /\ FindRide(rides, last.ride) # NoDoc
    /\ rides[last.ride].status = ASSIGNED
    /\ rides[last.ride].driver_id \in UserIds \ {last.by}

-----------------------------------------------------------------------------
(* Properties of attendance and of interleaved requests                    *)

\* the attendance documents of one driver id and date
AttendanceOf(driver_id, date) ==
    {i \in 1..Len(attendance) :
        attendance[i].driver_id = driver_id /\ attendance[i].date = date}

\* C7: with update_my_status requests run one at a time there is at most
\* one DriverAttendance document per (driver_id, date).
C7_OneRecordPerDay ==
    \A i, j \in 1..Len(attendance) :
        (/\ attendance[i].driver_id = attendance[j].driver_id
         /\ attendance[i].date = attendance[j].date)
        => i = j

\* a second online signal of the day found the record of the first one and
\* wrote nothing
C7_Witness ==
    /\ last.op = "update_my_status"
    /\ last.is_online
    /\ last.code = OK
    /\ last.att = "none"
    /\ \E d \in DOMAIN drivers :
          /\ drivers[d].user_id = last.by
          /\ Cardinality(AttendanceOf(d, Midnight(now))) = 1

\* C8: two interleaved online requests of one driver on one day that both
\* read "no attendance record" both insert: the collection then holds two
\* documents for that (driver_id, date).
C8_RaceInsertsTwice ==
    \A c1, c2 \in Slots :
        (/\ c1 # c2
         /\ \A c \in {c1, c2} :
               /\ calls[c].op = "update_my_status"
               /\ calls[c].is_online
               /\ calls[c].pc = "done"
               /\ calls[c].code = OK
               /\ calls[c].found = NoDoc
         /\ calls[c1].doc.id = calls[c2].doc.id
         /\ calls[c1].date = calls[c2].date)
        => Cardinality(AttendanceOf(calls[c1].doc.id, calls[c1].date)) >= 2

\* two documents for one (driver_id, date)
C8_Witness ==
    \E i, j \in 1..Len(attendance) :
        /\ i # j
        /\ attendance[i].driver_id = attendance[j].driver_id
        /\ attendance[i].date = attendance[j].date

\* C9: when two interleaved assign requests on one ride both succeed, the
\* ride carries the driver_id and assigned_at of the one that saved last.
C9_LaterAssignWins ==
    \A c1, c2 \in Slots :
        (/\ c1 # c2
         /\ \A c \in {c1, c2} :
               /\ calls[c].op = "assign"
               /\ calls[c].pc = "done"
               /\ calls[c].code = OK
         /\ calls[c1].ride = calls[c2].ride
         /\ calls[c1].seq < calls[c2].seq)
        => /\ rides[calls[c2].ride].driver_id = calls[c2].driver_id
           /\ rides[calls[c2].ride].assigned_at = calls[c2].doc.assigned_at

\* two assign requests with different drivers both answered 200 on one
\* ride, and the driver of the first save is gone from the ride
C9_Witness ==
    \E c1, c2 \in Slots :
        /\ \A c \in {c1, c2} :
              /\ calls[c].op = "assign"
              /\ calls[c].pc = "done"
              /\ calls[c].code = OK
        /\ calls[c1].ride = calls[c2].ride
        /\ calls[c1].seq = 1
        /\ calls[c2].seq = 2
        /\ calls[c1].driver_id # calls[c2].driver_id
        /\ rides[calls[c1].ride].driver_id # calls[c1].driver_id

StatusRank(status) ==
    CASE status = REQUESTED -> 0
      [] status = ASSIGNED -> 1
      [] status = IN_PROGRESS -> 2
      [] status = COMPLETED -> 3
      [] OTHER -> 4

\* C10: with assign, start and complete interleaved, a ride's stored status
\* never moves backward along REQUESTED, ASSIGNED, IN_PROGRESS, COMPLETED.
C10_StatusMonotonic ==
    [][\A r \in DOMAIN rides :
         (rides[r] # NoDoc /\ rides'[r] # NoDoc)
         => StatusRank(rides'[r].status) >= StatusRank(rides[r].status)]_vars

\* C11: when two interleaved complete requests (or two start requests) by
\* the ride's driver both answer 200 on one ride, the ride carries the
\* end_km, distance and completed_at (start_km and picked_up_at) of the one
\* that saved last, whatever the other caller was told.
C11_LaterWriteWins ==
    \A c1, c2 \in Slots :
        (/\ c1 # c2
         /\ \A c \in {c1, c2} :
               /\ calls[c].pc = "done"
               /\ calls[c].code = OK
         /\ calls[c1].op = calls[c2].op
         /\ calls[c1].ride = calls[c2].ride
         /\ calls[c1].seq < calls[c2].seq)
        => LET ride == rides[calls[c2].ride]
           IN  /\ calls[c2].op = "complete" =>
                    /\ ride.status = COMPLETED
                    /\ ride.end_km = calls[c2].km
                    /\ Some(ride.distance) = calls[c2].distance
                    /\ ride.completed_at = calls[c2].doc.completed_at
               /\ calls[c2].op = "start" =>
                    /\ ride.status = IN_PROGRESS
                    /\ ride.start_km = calls[c2].km
                    /\ ride.picked_up_at = calls[c2].doc.picked_up_at

\* two complete requests by the ride's driver both answered 200 on one ride
\* with different distances, and the ride carries the later one's
C11_Witness ==
    \E c1, c2 \in Slots :
        /\ \A c \in {c1, c2} :
              /\ calls[c].op = "complete"
              /\ calls[c].pc = "done"
              /\ calls[c].code = OK
              /\ calls[c].by = rides[calls[c].ride].driver_id
        /\ calls[c1].ride = calls[c2].ride
        /\ calls[c1].seq = 1
        /\ calls[c2].seq = 2
        /\ calls[c1].distance # calls[c2].distance
        /\ calls[c1].doc.completed_at # calls[c2].doc.completed_at
        /\ Some(rides[calls[c2].ride].distance) = calls[c2].distance

\* two start requests by the ride's driver both answered 200 on one ride
C11_WitnessStart ==
    \E c1, c2 \in Slots :
        /\ \A c \in {c1, c2} :
              /\ calls[c].op = "start"
              /\ calls[c].pc = "done"
              /\ calls[c].code = OK
        /\ calls[c1].ride = calls[c2].ride
        /\ calls[c1].seq = 1
        /\ calls[c2].seq = 2
        /\ calls[c1].km # calls[c2].km

-----------------------------------------------------------------------------
(* Properties of update_my_status, requests one at a time                  *)

\* C12: every write of check_out on an attendance record sets check_out to
\* the request's now and, in the same write, total_hours to
\* (check_out - check_in) seconds / 3600 when the record has a check_in and
\* to 0 when it has none; check_in itself is not changed.
C12_TotalHours ==
    [][\A i \in 1..Len(attendance) :
         attendance'[i].check_out # attendance[i].check_out
         => /\ ~last'.is_online
            /\ attendance[i].check_out = None
            /\ attendance'[i].check_out = Some(now)
            /\ attendance'[i].check_in = attendance[i].check_in
            /\ attendance'[i].total_hours =
                  IF attendance[i].check_in = None
                  THEN Some(<<0, 3600>>)
                  ELSE Some(<<Seconds(now)
                                - Seconds(Val(attendance[i].check_in)),
                              3600>>)]_vars

\* one record checked in at 09:00 and out at 17:30 carries 8.5 hours, and a
\* record without check_in was checked out with 0 hours
C12_Witness ==
    /\ \E i \in 1..Len(attendance) :
          /\ attendance[i].check_in # None
          /\ attendance[i].check_out # None
          /\ Seconds(Val(attendance[i].check_in)) = 9 * 3600
          /\ Seconds(Val(attendance[i].check_out)) = 17 * 3600 + 1800
          /\ 2 * Val(attendance[i].total_hours)[1]
               = 17 * Val(attendance[i].total_hours)[2]
    /\ \E i \in 1..Len(attendance) :
          /\ attendance[i].check_in = None
          /\ attendance[i].check_out # None
          /\ Val(attendance[i].total_hours)[1] = 0

\* the Driver document ids of the profiles of a user
ProfilesOf(user_id) == {d \in DOMAIN drivers : drivers[d].user_id = user_id}

\* C13: an offline request changes the attendance collection only when the
\* caller's driver has a record for today without check_out; with no record
\* for today, or with check_out already set, nothing is inserted and no
\* record changes.  The request succeeds either way.
C13_OfflineNoOp ==
    /\ [][(attendance' # attendance /\ ~last'.is_online)
          => \E i \in 1..Len(attendance) :
                /\ attendance[i].driver_id \in ProfilesOf(last'.by)
                /\ attendance[i].date = Midnight(now')
                /\ attendance[i].check_out = None
                /\ Len(attendance') = Len(attendance)
                /\ \A j \in 1..Len(attendance) :
                      j # i => attendance'[j] = attendance[j]]_vars
    /\ [](last.op = "update_my_status" /\ ProfilesOf(last.by) # {}
           => last.code = OK)

\* an offline request found today's record checked out earlier and wrote
\* nothing
C13_Witness ==
    /\ last.op = "update_my_status"
    /\ ~last.is_online
    /\ last.code = OK
    /\ last.att = "none"
    /\ \E i \in 1..Len(attendance) :
          /\ attendance[i].driver_id \in ProfilesOf(last.by)
          /\ attendance[i].date = Midnight(now)
          /\ attendance[i].check_out # None
          /\ drivers[attendance[i].driver_id].last_status_change
               > Val(attendance[i].check_out)

\* a step in which a request changed the store or its answer
StatusStep == <<drivers, attendance, last>>' # <<drivers, attendance, last>>

\* C14: an online request appends exactly one record (driver, today,
\* check_in = now, status present, no check_out) when the driver has none
\* for today; sets check_in = now and status = present on today's record
\* when it has no check_in; and changes nothing in the attendance
\* collection when today's record has a check_in.
C14_OnlineAttendance ==
    [][(/\ StatusStep
        /\ last'.op = "update_my_status"
        /\ last'.is_online
        /\ last'.code = OK)
       => \E d \in ProfilesOf(last'.by) :
            LET today == Midnight(now')
                recs  == {i \in 1..Len(attendance) :
                            /\ attendance[i].driver_id = d
                            /\ attendance[i].date = today}
            IN  IF recs = {}
                THEN /\ Len(attendance') = Len(attendance) + 1
                     /\ SubSeq(attendance', 1, Len(attendance)) = attendance
                     /\ LET new == attendance'[Len(attendance')]
                        IN  /\ new.driver_id = d
                            /\ new.date = today
                            /\ new.check_in = Some(now)
                            /\ new.status = "present"
                            /\ new.check_out = None
                            /\ new.total_hours = None
                ELSE \E i \in recs :
                       IF attendance[i].check_in = None
                       THEN attendance' =
                              [attendance EXCEPT
                                 ![i].check_in = Some(now),
                                 ![i].status = "present"]
                       ELSE attendance' = attendance]_vars

\* the record that had no check_in was checked in, another driver's record
\* was created, and a repeated online signal wrote nothing
C14_Witness ==
    /\ last.op = "update_my_status"
    /\ last.is_online
    /\ last.code = OK
    /\ last.att = "none"
    /\ Len(attendance) = 2
    /\ attendance[1].check_in # None
    /\ attendance[1].status = "present"
    /\ attendance[2].driver_id \in ProfilesOf(last.by)
    /\ attendance[2].date = Midnight(now)
    /\ Val(attendance[2].check_in) < now

\* C15: every update_my_status request of a user with a Driver profile
\* leaves that Driver with is_online = the requested value and
\* last_status_change = the request's now, whatever is_online was before
\* and whatever the attendance branch does; nothing else of any Driver
\* changes, so a repeated status only moves last_status_change.
C15_DriverStatus ==
    [][(/\ StatusStep
        /\ last'.op = "update_my_status"
        /\ ProfilesOf(last'.by) # {})
       => \E d \in ProfilesOf(last'.by) :
            /\ last'.code = OK
            /\ drivers'[d].is_online = last'.is_online
            /\ drivers'[d].last_status_change = now
            /\ drivers' = [drivers EXCEPT
                             ![d].is_online = last'.is_online,
                             ![d].last_status_change = now]]_vars

\* a repeated online signal, later than the check-in of the first one, left
\* the driver online and moved last_status_change past the check-in
C15_Witness ==
    /\ last.op = "update_my_status"
    /\ last.is_online
    /\ last.att = "none"
    /\ \E d \in ProfilesOf(last.by), i \in 1..Len(attendance) :
          /\ drivers[d].is_online
          /\ attendance[i].driver_id = d
          /\ attendance[i].date = Midnight(now)
          /\ attendance[i].check_out = None
          /\ drivers[d].last_status_change > Val(attendance[i].check_in)

-----------------------------------------------------------------------------
(* Further properties of the ride lifecycle, requests one at a time        *)

\* C16: once a ride's driver_id is set, no request clears it or replaces
\* it by another id.
C16_DriverIdKept ==
    [][\A r \in DOMAIN rides :
         (rides[r] # NoDoc /\ rides[r].driver_id # NoId)
         => /\ rides'[r] # NoDoc
            /\ rides'[r].driver_id = rides[r].driver_id]_vars

\* a started and completed ride still carries its driver after an assign
\* request that named an existing Driver
C16_Witness ==
    /\ last.op = "assign"
    /\ last.driver_id \in DriverIds
    /\ FindRide(rides, last.ride) # NoDoc
    /\ rides[last.ride].status = COMPLETED
    /\ rides[last.ride].driver_id \in UserIds

\* the timestamp fields of a Ride
Timestamps == {"requested_at", "assigned_at", "accepted_at", "picked_up_at",
               "completed_at", "cancelled_at"}

\* the timestamp a transition stamps
StampOf(op) ==
    CASE op = "assign" -> "assigned_at"
      [] op = "start" -> "picked_up_at"
      [] op = "complete" -> "completed_at"

\* C17: a request that changes a stored ride is an assign, a start or a
\* complete; it sets status and its own timestamp (assigned_at,
\* picked_up_at, completed_at) to now and leaves the five other timestamps
\* as they were, so requested_at, accepted_at and cancelled_at never change
\* after creation.
C17_OneTimestamp ==
    [][\A r \in DOMAIN rides :
         (rides[r] # NoDoc /\ rides'[r] # rides[r])
         => /\ last'.op \in {"assign", "start", "complete"}
            /\ last'.code = OK
            /\ rides'[r].status # rides[r].status
            /\ rides'[r][StampOf(last'.op)] = Some(now)
            /\ \A f \in Timestamps \ {StampOf(last'.op)} :
                  rides'[r][f] = rides[r][f]]_vars

\* a ride stamped at three different instants by its creation with a
\* driver, its start and its completion
C17_Witness ==
    \E r \in DOMAIN rides :
        /\ rides[r] # NoDoc
        /\ rides[r].status = COMPLETED
        /\ rides[r].assigned_at # None
        /\ rides[r].picked_up_at # None
        /\ rides[r].completed_at # None
        /\ Val(rides[r].assigned_at) < Val(rides[r].picked_up_at)
        /\ Val(rides[r].picked_up_at) < Val(rides[r].completed_at)
        /\ rides[r].accepted_at = None

\* C18: no stored ride has status ACCEPTED, PICKING_UP or CANCELLED, and
\* accepted_at and cancelled_at are unset on every stored ride.
C18_UnusedStatuses ==
    \A r \in DOMAIN rides :
        rides[r] # NoDoc
        => /\ rides[r].status \in {REQUESTED, ASSIGNED, IN_PROGRESS, COMPLETED}
           /\ rides[r].status \notin {ACCEPTED, PICKING_UP, CANCELLED}
           /\ rides[r].accepted_at = None
           /\ rides[r].cancelled_at = None

\* a ride went through every handler that writes rides up to a successful
\* complete and has neither accepted_at nor cancelled_at
C18_Witness ==
    /\ last.op = "complete"
    /\ last.code = OK
    /\ rides[last.ride].status = COMPLETED
    /\ rides[last.ride].accepted_at = None
    /\ rides[last.ride].cancelled_at = None

\* C19: assign on a missing ride answers NotFound; on an existing ride that
\* is not REQUESTED it answers InvalidTransition whether or not the driver
\* exists; on a REQUESTED ride with a driver_id that no Driver has it
\* answers NotFound and the ride stays REQUESTED without driver_id and
\* assigned_at.  No ride changes in any of the three.
C19_AssignErrors ==
    [][\A r \in RideIds :
         (/\ CallStep
          /\ last'.op = "assign"
          /\ last'.ride = r)
         => LET ride == FindRide(rides, r)
            IN  /\ ride = NoDoc
                   => last'.code = NotFound /\ rides' = rides
                /\ (ride # NoDoc /\ ride.status # REQUESTED)
                   => last'.code = InvalidTransition /\ rides' = rides
                /\ (/\ ride # NoDoc
                    /\ ride.status = REQUESTED
                    /\ last'.driver_id \notin DOMAIN drivers)
                   => /\ last'.code = NotFound
                      /\ rides' = rides
                      /\ rides'[r].status = REQUESTED
                      /\ rides'[r].driver_id = NoId
                      /\ rides'[r].assigned_at = None]_vars

\* an assign naming the User id of a driver, which is no Driver document's
\* id, was refused on a REQUESTED ride
C19_Witness ==
    /\ last.op = "assign"
    /\ last.code = NotFound
    /\ last.driver_id \in UserIds
    /\ FindRide(rides, last.ride) # NoDoc
    /\ rides[last.ride].status = REQUESTED
    /\ rides[last.ride].driver_id = NoId
    /\ rides[last.ride].assigned_at = None

\* C20: start by the ride's driver answers 200 only on an ASSIGNED ride
\* that was never started; on an IN_PROGRESS or COMPLETED ride it answers
\* InvalidTransition and leaves the ride (start_km, picked_up_at, status)
\* as it was.  Once picked_up_at is set, start_km and picked_up_at never
\* change: start_km is written at most once per ride.
C20_StartOnlyAssigned ==
    [][\A r \in DOMAIN rides :
         /\ (/\ CallStep
             /\ last'.op = "start"
             /\ last'.ride = r
             /\ rides[r] # NoDoc
             /\ rides[r].driver_id = last'.by)
            => /\ last'.code = OK
                  => /\ rides[r].status = ASSIGNED
                     /\ rides[r].picked_up_at = None
                     /\ rides[r].start_km = None
               /\ rides[r].status \in {IN_PROGRESS, COMPLETED}
                  => /\ last'.code = InvalidTransition
                     /\ rides'[r] = rides[r]
         /\ (rides[r] # NoDoc /\ rides[r].picked_up_at # None)
            => /\ rides'[r].start_km = rides[r].start_km
               /\ rides'[r].picked_up_at = rides[r].picked_up_at]_vars

\* the ride's driver asked to start a ride already in progress, with
\* another odometer reading, and was refused
C20_Witness ==
    /\ last.op = "start"
    /\ last.code = InvalidTransition
    /\ FindRide(rides, last.ride) # NoDoc
    /\ rides[last.ride].driver_id = last.by
    /\ rides[last.ride].status = IN_PROGRESS
    /\ rides[last.ride].start_km # None
    /\ last.km # None
    /\ last.km # rides[last.ride].start_km

-----------------------------------------------------------------------------
(* Properties of create_manual_ride and of the ids on a ride               *)

-----------------------------------------------------------------------------
(* Properties of the user and fuel-entry handlers                          *)

RoleOf(user_id) == (CHOOSE u \in users : u.id = user_id).role

\* C23: get_fuel_entries returns to an admin every entry, or with a
\* driver_id filter exactly the entries of that driver_id; to a driver
\* exactly the entries whose driver_id is the driver's own id, whatever
\* filter was passed; to any other role 403 and no entry.
C23_FuelScope ==
    last.op = "get_fuel_entries" =>
        LET role == RoleOf(last.by)
            filter == last.driver_id
        IN  /\ role = "admin" =>
                 /\ last.code = OK
                 /\ filter \in UserIds =>
                       last.rows = {x \in fuel_entries : x.driver_id = filter}
                 /\ filter \notin UserIds => last.rows = fuel_entries
            /\ role = "driver" =>
                 /\ last.code = OK
                 /\ last.rows = {x \in fuel_entries : x.driver_id = last.by}
            /\ role \notin {"admin", "driver"} =>
                 /\ last.code = Forbidden
                 /\ last.rows = {}

\* a driver who asked for another driver's entries got only its own, while
\* the other driver has entries too
C23_Witness ==
    /\ last.op = "get_fuel_entries"
    /\ RoleOf(last.by) = "driver"
    /\ last.driver_id \in UserIds \ {last.by}
    /\ last.rows # {}
    /\ \A x \in last.rows : x.driver_id = last.by
    /\ \E x \in fuel_entries : x.driver_id = last.driver_id

\* C24: after assign(ride, d) answered 200, with d the id of the Driver
\* profile of user u, the start request authenticated as u finds the ride
\* and answers 200: the id assign stores in ride.driver_id is the id that
\* start compares with.
C24_AssignedDriverStarts ==
    (Len(scenario.codes) >= 3 /\ scenario.codes[2] = OK)
    => /\ scenario.codes[3] = OK
       /\ rides[scenario.ride].driver_id
            = drivers[scenario.driver].user_id

-----------------------------------------------------------------------------
(* Properties of a driver's second session of the day                      *)

\* C25: when a driver goes online, offline, online and offline within one
\* day, the second online and the second offline change nothing in the
\* attendance collection: the day's record keeps the check_in of the first
\* online and the check_out of the first offline, and its total_hours is
\* the length of the first session.
C25_SecondSession ==
    /\ [][(/\ Len(scenario.codes) >= 2
           /\ Len(scenario'.codes) > Len(scenario.codes)
           /\ \E i \in 1..Len(attendance) :
                 /\ attendance[i].driver_id = scenario.driver
                 /\ attendance[i].date = Midnight(now')
                 /\ attendance[i].check_out # None)
          => attendance' = attendance]_vars
    /\ [](\A i \in 1..Len(attendance) :
            attendance[i].check_out # None
            => /\ attendance[i].check_in # None
               /\ attendance[i].total_hours =
                     Some(<<Seconds(Val(attendance[i].check_out))
                              - Seconds(Val(attendance[i].check_in)),
                            3600>>))

\* all four requests ran within one day, the last two later than the first
\* check-out, and the record still carries the first session
C25_Witness ==
    /\ Len(scenario.codes) = 4
    /\ \A n \in 1..4 : scenario.codes[n] = OK
    /\ Len(attendance) = 1
    /\ attendance[1].date = Midnight(now)
    /\ attendance[1].check_out # None
    /\ Val(attendance[1].check_out) > Val(attendance[1].check_in)
    /\ drivers[scenario.driver].last_status_change
         > Val(attendance[1].check_out)

-----------------------------------------------------------------------------
(* Invariants of the stored rides, requests one at a time                  *)

\* C26: every stored ride that is ASSIGNED, IN_PROGRESS or COMPLETED has a
\* driver_id, and every stored ride that is REQUESTED has none.
C26_DriverIffAssigned ==
    \A r \in DOMAIN rides :
        rides[r] # NoDoc
        => /\ rides[r].status \in {ASSIGNED, IN_PROGRESS, COMPLETED}
              => rides[r].driver_id # NoId
           /\ rides[r].status = REQUESTED => rides[r].driver_id = NoId

\* a <= b for two timestamps that are both set
Ordered(a, b) == (a # None /\ b # None) => Val(a) <= Val(b)

\* C27: on every stored ride assigned_at is set iff the status is ASSIGNED,
\* IN_PROGRESS or COMPLETED, picked_up_at iff it is IN_PROGRESS or
\* COMPLETED, completed_at iff it is COMPLETED, and the timestamps that are
\* set satisfy requested_at <= assigned_at <= picked_up_at <= completed_at.
C27_TimestampsAgree ==
    \A r \in DOMAIN rides :
        rides[r] # NoDoc
        => LET ride == rides[r]
           IN  /\ ride.assigned_at # None
                    <=> ride.status \in {ASSIGNED, IN_PROGRESS, COMPLETED}
               /\ ride.picked_up_at # None
                    <=> ride.status \in {IN_PROGRESS, COMPLETED}
               /\ ride.completed_at # None <=> ride.status = COMPLETED
               /\ Ordered(ride.requested_at, ride.assigned_at)
               /\ Ordered(ride.assigned_at, ride.picked_up_at)
               /\ Ordered(ride.picked_up_at, ride.completed_at)

\* C28: once a stored ride is COMPLETED no step changes any field of it:
\* status, driver_id, start_km, end_km, distance and the timestamps stay as
\* they were at completion.
C28_CompletedFrozen ==
    [][\A r \in DOMAIN rides :
         (rides[r] # NoDoc /\ rides[r].status = COMPLETED)
         => rides'[r] = rides[r]]_vars

\* C29: the distance stored on a COMPLETED ride is never negative, whatever
\* start_km and end_km the requests carried.
C29_DistanceNotNegative ==
    \A r \in DOMAIN rides :
        (rides[r] # NoDoc /\ rides[r].status = COMPLETED)
        => rides[r].distance >= 0

\* the records update_my_status wrote are well formed: check_in is set, and
\* a check_out comes with total_hours, is not before check_in, and the hours
\* are not negative
WellFormedAttendance(a) ==
    /\ a.check_in # None
    /\ a.check_out # None =>
          /\ a.total_hours # None
          /\ Val(a.check_out) >= Val(a.check_in)
          /\ Val(a.total_hours)[1] >= 0

\* with requests run one at a time the records are well formed in every
\* state, no request going online saves a found record (the "record without
\* check_in" branch), and every check-out is of a record with check_in (the
\* "total_hours = 0.0" branch is not taken)
SequentialCheckInFromCreation ==
    /\ [](\A i \in 1..Len(attendance) : WellFormedAttendance(attendance[i]))
    /\ [][StatusStep /\ last'.code = OK =>
            /\ last'.is_online => last'.att # "save"
            /\ \A i \in 1..Len(attendance) :
                   attendance'[i] # attendance[i]
                   => /\ attendance[i].check_in # None
                      /\ attendance'[i].total_hours
                           = Some(TotalHours(attendance[i].check_in,
                                             attendance'[i].check_out))]_vars

\* C30: every DriverAttendance record update_my_status creates has check_in
\* from its creation on, and in every reachable state each record has
\* check_in and a check_out comes with total_hours, check_out >= check_in
\* and total_hours >= 0.
C30_CheckInFromCreation ==
    \A i \in 1..Len(attendance) : WellFormedAttendance(attendance[i])

\* C31: update_my_status reads and writes only the attendance record of the
\* calling driver for the current day: a record that changes, and a record
\* that is inserted, has the caller's driver id and today's date; records of
\* other drivers and of other dates stay as they are, so a record of a day
\* that ended while the driver was online never gets check_out or
\* total_hours.
C31_OwnRecordOfToday ==
    /\ [][\A i \in 1..Len(attendance') :
            (i > Len(attendance) \/ attendance'[i] # attendance[i])
            => /\ last'.op = "update_my_status"
               /\ attendance'[i].driver_id \in ProfilesOf(last'.by)
               /\ attendance'[i].date = Midnight(now')]_vars
    /\ [][\A i \in 1..Len(attendance) :
            attendance[i].date < Midnight(now')
            => attendance'[i] = attendance[i]]_vars

\* the driver went online on one day and signals offline on the next: the
\* request succeeds and the first day's record still has no check_out
C31_Witness ==
    /\ last.op = "update_my_status"
    /\ ~last.is_online
    /\ last.code = OK
    /\ \E i \in 1..Len(attendance) :
          /\ attendance[i].driver_id \in ProfilesOf(last.by)
          /\ attendance[i].date < Midnight(now)
          /\ attendance[i].check_out = None
          /\ attendance[i].total_hours = None

\* C32: create_driver is all-or-nothing: a create_driver request adds either
\* both a User of role driver and a Driver profile with that user's id, or
\* neither; it never leaves a new User of role driver without a profile.
C32_DriverAllOrNothing ==
    [][last'.op = "create_driver" =>
         LET newUsers    == users' \ users
             newProfiles == DOMAIN drivers' \ DOMAIN drivers
         IN  \/ newUsers = {} /\ newProfiles = {}
             \/ /\ newUsers # {}
                /\ \A u \in newUsers :
                      /\ u.role = "driver"
                      /\ \E d \in newProfiles : drivers'[d].user_id = u.id]_vars

====
